---------------------------- MODULE Spec2Model ----------------------------
(***************************************************************************)
(* Model of custom_components/tuya_v2/cover.py: the Tuya cover platform.   *)
(*                                                                         *)
(* The state is the part of hass.data and of the device manager that the   *)
(* platform reads or writes: the device map (category and status mapping   *)
(* of each device), the platform registration map, the dispatcher          *)
(* connection, the shared entity list, the batches handed to               *)
(* async_add_entities, and the command lists handed to the device manager. *)
(* The entity properties are operators over an entity and the current      *)
(* status of its device; every handler is one action.                      *)
(***************************************************************************)
EXTENDS Integers, Sequences, FiniteSets, TLC

VARIABLES
    device_map,            \* device_manager.device_map: id -> [category, status]
    ha_tuya_map,           \* hass.data[DOMAIN][TUYA_HA_TUYA_MAP]
    dispatcher_connected,  \* async_discover_device is connected to TUYA_DISCOVERY_NEW
    ha_devices,            \* hass.data[DOMAIN][TUYA_HA_DEVICES]
    added,                 \* the lists passed to async_add_entities, in call order
    sent,                  \* the (device id, commands) pairs passed to the device manager
    calls,                 \* history: the command handlers invoked, in call order
    n_discover             \* history: discovery notifications delivered after setup

vars == <<device_map, ha_tuya_map, dispatcher_connected, ha_devices, added,
          sent, calls, n_discover>>

---------------------------------------------------------------------------
(* Bounds of the model. *)

\* Number of devices in the device manager's map (specification SpecSetup).
NumDevices == 2

\* Discovery notifications delivered after setup.
MaxDiscover == 1

\* Command handler invocations.
MaxSent == 2

DeviceIds == 1..NumDevices

\* The device map of the entity-level specification holds this one device.
SingleDevice == {1}

\* Categories a device of the map may have: the three supported ones and a
\* category of another platform ("kg", a switch).
Categories == {"cl", "clkg", "ckmkzq", "kg"}

\* Values the device manager may report for percent_state / percent_control.
PercentStates == {0, 30, 100}
PercentControls == {30}

\* Values of the position argument of set_cover_position: in and out of 0..100.
Positions == {-10, 30, 150}

---------------------------------------------------------------------------
(* Constants of the source. *)

TUYA_SUPPORT_TYPE == {"cl", "clkg", "ckmkzq"}

DPCODE_CONTROL == "control"
DPCODE_PERCENT_CONTROL == "percent_control"
DPCODE_PERCENT_STATE == "percent_state"
DPCODE_GD_SWITCH1 == "switch_1"
DPCODE_GD_CSTATE == "doorcontact_state"
ATTR_POSITION == "position"

DEVICE_DOMAIN == "cover"
DEVICE_CLASS_GARAGE == "garage"
DEVICE_CLASS_CURTAIN == "curtain"

\* homeassistant.components.cover feature flags.
SUPPORT_OPEN == 1
SUPPORT_CLOSE == 2
SUPPORT_SET_POSITION == 4
SUPPORT_STOP == 8

---------------------------------------------------------------------------
(* Python values and operators. *)

\* A dynamically typed Python value carried in a command: its type and itself.
PyBool(b) == <<"bool", b>>
PyStr(s) == <<"str", s>>
PyInt(n) == <<"int", n>>

\* The empty dict.
EmptyDict == [k \in {} |-> 0]

\* dict.get(key, default)
Get(d, key, default) == IF key \in DOMAIN d THEN d[key] ELSE default

\* d[key] = value
DictSet(d, key, value) ==
    [k \in (DOMAIN d) \cup {key} |-> IF k = key THEN value ELSE d[k]]

\* del d[key]
DictDel(d, key) == [k \in (DOMAIN d) \ {key} |-> d[k]]

\* a | b on non-negative integers
RECURSIVE BitOr(_, _)
BitOr(a, b) ==
    IF a = 0 THEN b
    ELSE IF b = 0 THEN a
    ELSE (IF (a % 2 = 1) \/ (b % 2 = 1) THEN 1 ELSE 0)
         + 2 * BitOr(a \div 2, b \div 2)

\* (features & flag) != 0 for a single-bit flag
HasFeature(features, flag) == (features \div flag) % 2 = 1

\* The concatenation of a list of lists.
RECURSIVE Flatten(_)
Flatten(ss) == IF ss = <<>> THEN <<>> ELSE Head(ss) \o Flatten(Tail(ss))

\* The elements of a finite set of integers as a list, ascending.
RECURSIVE SortedSeq(_)
SortedSeq(S) ==
    IF S = {} THEN <<>>
    ELSE LET m == CHOOSE x \in S : \A y \in S : x <= y
         IN  <<m>> \o SortedSeq(S \ {m})

---------------------------------------------------------------------------
(* TuyaHaCover: an entity is its device id (the reference to the device    *)
(* record held by the device manager) and its _type.                       *)

TuyaHaCover(device_id, sensor_type) == [device_id |-> device_id, type |-> sensor_type]

\* self.tuya_device.status, read through the reference to the device record.
tuya_status(e) == device_map[e.device_id].status

device_class(e) == e.type

_is_garage(e) == e.type = DEVICE_CLASS_GARAGE

\* Mutant: the garage branch returns the sensor value itself.
is_closed_no_negation(e) ==
    IF _is_garage(e) THEN Get(tuya_status(e), DPCODE_GD_CSTATE, FALSE) ELSE FALSE

\* Mutant: a curtain at position 0 reports closed.
is_closed_from_position(e) ==
    IF _is_garage(e) THEN ~ Get(tuya_status(e), DPCODE_GD_CSTATE, FALSE)
    ELSE 100 - Get(tuya_status(e), DPCODE_PERCENT_STATE, 0) = 0

\* Mutant: an absent contact sensor defaults to True.
is_closed_default_true(e) ==
    IF _is_garage(e) THEN ~ Get(tuya_status(e), DPCODE_GD_CSTATE, TRUE) ELSE FALSE

is_closed(e) ==
    IF _is_garage(e) THEN ~ Get(tuya_status(e), DPCODE_GD_CSTATE, FALSE) ELSE FALSE

\* Mutant: the position is returned without the final inversion.
current_cover_position_no_inversion(e) ==
    LET position ==
            IF _is_garage(e)
            THEN (IF Get(tuya_status(e), DPCODE_GD_CSTATE, FALSE) THEN 0 ELSE 100)
            ELSE Get(tuya_status(e), DPCODE_PERCENT_STATE, 0)
    IN  position

\* Mutant: the garage branch synthesizes 100 for a true sensor and 0 otherwise.
current_cover_position_garage_swapped(e) ==
    LET position ==
            IF _is_garage(e)
            THEN (IF Get(tuya_status(e), DPCODE_GD_CSTATE, FALSE) THEN 100 ELSE 0)
            ELSE Get(tuya_status(e), DPCODE_PERCENT_STATE, 0)
    IN  100 - position

current_cover_position(e) ==
    LET position ==
            IF _is_garage(e)
            THEN (IF Get(tuya_status(e), DPCODE_GD_CSTATE, FALSE) THEN 0 ELSE 100)
            ELSE Get(tuya_status(e), DPCODE_PERCENT_STATE, 0)
    IN  100 - position

\* Mutant: set-position is advertised per device class, not per status.
supported_features_fixed(e) ==
    LET s0 == BitOr(SUPPORT_OPEN, SUPPORT_CLOSE)
        s1 == IF ~ _is_garage(e) THEN BitOr(s0, SUPPORT_STOP) ELSE s0
        s2 == IF ~ _is_garage(e) THEN BitOr(s1, SUPPORT_SET_POSITION) ELSE s1
    IN  s2

supported_features(e) ==
    LET s0 == BitOr(SUPPORT_OPEN, SUPPORT_CLOSE)
        s1 == IF ~ _is_garage(e) THEN BitOr(s0, SUPPORT_STOP) ELSE s0
        s2 == IF DPCODE_PERCENT_CONTROL \in DOMAIN tuya_status(e)
              THEN BitOr(s1, SUPPORT_SET_POSITION) ELSE s1
    IN  s2

extra_state_attributes(e) == tuya_status(e)

(* The command lists built by the command handlers. *)

\* Mutant: a garage door is opened with the curtain directive.
open_cover_commands_curtain_only(e) ==
    << [code |-> DPCODE_CONTROL, value |-> PyStr("open")] >>

open_cover_commands(e) ==
    << [code  |-> IF _is_garage(e) THEN DPCODE_GD_SWITCH1 ELSE DPCODE_CONTROL,
        value |-> IF _is_garage(e) THEN PyBool(TRUE) ELSE PyStr("open")] >>

close_cover_commands(e) ==
    << [code  |-> IF _is_garage(e) THEN DPCODE_GD_SWITCH1 ELSE DPCODE_CONTROL,
        value |-> IF _is_garage(e) THEN PyBool(TRUE) ELSE PyStr("close")] >>

\* Mutant: a garage door, which has no stop support, is sent nothing.
stop_cover_commands_guarded(e) ==
    IF _is_garage(e) THEN <<>>
    ELSE << [code |-> DPCODE_CONTROL, value |-> PyStr("stop")] >>

stop_cover_commands(e) ==
    << [code |-> DPCODE_CONTROL, value |-> PyStr("stop")] >>

\* Mutant: the requested position is inverted like the read path.
set_cover_position_commands_inverted(e, kwargs) ==
    << [code |-> DPCODE_PERCENT_CONTROL, value |-> PyInt(100 - kwargs[ATTR_POSITION])] >>

set_cover_position_commands(e, kwargs) ==
    << [code |-> DPCODE_PERCENT_CONTROL, value |-> PyInt(kwargs[ATTR_POSITION])] >>

---------------------------------------------------------------------------
(* Discovery glue. *)

\* One entity per device id, in order. (The "device is None" skip never
\* applies: the ids come from the device map, whose values are devices.)
RECURSIVE _setup_entities(_)
_setup_entities(device_ids) ==
    IF device_ids = <<>> THEN <<>>
    ELSE LET device_id == Head(device_ids)
             device == device_map[device_id]
             entity == IF device.category = "ckmkzq"
                       THEN TuyaHaCover(device_id, DEVICE_CLASS_GARAGE)
                       ELSE TuyaHaCover(device_id, DEVICE_CLASS_CURTAIN)
         IN  <<entity>> \o _setup_entities(Tail(device_ids))

\* The callback connected to the discovery notification channel.
async_discover_device(dev_ids) ==
    IF dev_ids = <<>>
    THEN UNCHANGED <<ha_devices, added>>
    ELSE LET entities == _setup_entities(dev_ids)
         IN  /\ ha_devices' = ha_devices \o entities
             /\ added' = Append(added, entities)

\* Mutant: every device of the map is set up, whatever its category.
supported_device_ids_unfiltered == SortedSeq(DOMAIN device_map)

\* The ids of the devices of the map whose category is supported, in the
\* map's iteration order (taken to be the order of the ids).
supported_device_ids ==
    SortedSeq({d \in DOMAIN device_map : device_map[d].category \in TUYA_SUPPORT_TYPE})

AsyncSetupEntry ==
    /\ ~ dispatcher_connected
    /\ ha_tuya_map' = DictSet(ha_tuya_map, DEVICE_DOMAIN, TUYA_SUPPORT_TYPE)
    /\ dispatcher_connected' = TRUE
    /\ async_discover_device(supported_device_ids)
    /\ UNCHANGED <<device_map, sent, calls, n_discover>>

\* The batches of device ids a discovery notification may carry: up to two
\* distinct ids of the device map.
DevIdBatches ==
    {<<>>} \cup {<<d>> : d \in DOMAIN device_map}
           \cup {<<d[1], d[2]>> : d \in {x \in (DOMAIN device_map) \X (DOMAIN device_map) : x[1] # x[2]}}

\* A discovery notification, delivered to the connected callback.
DiscoveryNew(dev_ids) ==
    /\ dispatcher_connected
    /\ n_discover < MaxDiscover
    /\ async_discover_device(dev_ids)
    /\ n_discover' = n_discover + 1
    /\ UNCHANGED <<device_map, ha_tuya_map, dispatcher_connected, sent, calls>>

---------------------------------------------------------------------------
(* The device manager: status updates and command transport. *)

\* The device manager stores a reported data point in the device's status.
DeviceReport(d, code, value) ==
    /\ d \in DOMAIN device_map
    /\ (code \in DOMAIN device_map[d].status => device_map[d].status[code] # value)
    /\ device_map' = [device_map EXCEPT ![d].status = DictSet(@, code, value)]
    /\ UNCHANGED <<ha_tuya_map, dispatcher_connected, ha_devices, added,
                   sent, calls, n_discover>>

\* The device manager rebuilds the status without a data point.
DeviceDrop(d, code) ==
    /\ d \in DOMAIN device_map
    /\ code \in DOMAIN device_map[d].status
    /\ device_map' = [device_map EXCEPT ![d].status = DictDel(@, code)]
    /\ UNCHANGED <<ha_tuya_map, dispatcher_connected, ha_devices, added,
                   sent, calls, n_discover>>

\* The entities the host platform manages: those passed to async_add_entities.
entities == Flatten(added)

\* self._send_command(commands): the command list goes to the device manager
\* with the id of the entity's device; sent records each such hand-over.
_send_command(e, commands) ==
    sent' = Append(sent, [device_id |-> e.device_id, commands |-> commands])

\* A command handler of entity number i is invoked with kwargs.
Invoke(i, op, kwargs, commands) ==
    /\ Len(calls) < MaxSent
    /\ i \in 1..Len(entities)
    /\ _send_command(entities[i], commands)
    /\ calls' = Append(calls, [op |-> op, entity |-> entities[i], kwargs |-> kwargs])
    /\ UNCHANGED <<device_map, ha_tuya_map, dispatcher_connected, ha_devices,
                   added, n_discover>>

NoKwargs == [k \in {} |-> 0]

open_cover(i) ==
    /\ i \in 1..Len(entities)
    /\ Invoke(i, "open_cover", NoKwargs, open_cover_commands(entities[i]))

close_cover(i) ==
    /\ i \in 1..Len(entities)
    /\ Invoke(i, "close_cover", NoKwargs, close_cover_commands(entities[i]))

stop_cover(i) ==
    /\ i \in 1..Len(entities)
    /\ Invoke(i, "stop_cover", NoKwargs, stop_cover_commands(entities[i]))

set_cover_position(i, position) ==
    /\ i \in 1..Len(entities)
    /\ LET kwargs == [k \in {ATTR_POSITION} |-> position]
       IN  Invoke(i, "set_cover_position", kwargs,
                  set_cover_position_commands(entities[i], kwargs))

---------------------------------------------------------------------------
(* Specifications. *)

\* The entries of other platforms already in the shared entity list.
OtherEntity == [device_id |-> 1, type |-> "switch"]

InitOf(ids, prior) ==
    /\ device_map \in [ids -> [category : Categories, status : {EmptyDict}]]
    /\ ha_tuya_map = EmptyDict
    /\ dispatcher_connected = FALSE
    /\ ha_devices \in prior
    /\ added = <<>>
    /\ sent = <<>>
    /\ calls = <<>>
    /\ n_discover = 0

\* A device map of one device, with its entities' whole life.
Init == InitOf(SingleDevice, {<<>>})

Next ==
    \/ AsyncSetupEntry
    \/ \E dev_ids \in DevIdBatches : DiscoveryNew(dev_ids)
    \/ \E d \in DOMAIN device_map, v \in BOOLEAN : DeviceReport(d, DPCODE_GD_CSTATE, v)
    \/ \E d \in DOMAIN device_map, v \in PercentStates : DeviceReport(d, DPCODE_PERCENT_STATE, v)
    \/ \E d \in DOMAIN device_map, v \in PercentControls : DeviceReport(d, DPCODE_PERCENT_CONTROL, v)
    \/ \E d \in DOMAIN device_map :
          \E code \in {DPCODE_GD_CSTATE, DPCODE_PERCENT_STATE, DPCODE_PERCENT_CONTROL} :
              DeviceDrop(d, code)
    \/ \E i \in 1..Len(entities) : open_cover(i)
    \/ \E i \in 1..Len(entities) : close_cover(i)
    \/ \E i \in 1..Len(entities) : stop_cover(i)
    \/ \E i \in 1..Len(entities), position \in Positions : set_cover_position(i, position)

Spec == Init /\ [][Next]_vars

\* A device map of NumDevices devices: setup and discovery only.
InitSetup == InitOf(DeviceIds, {<<>>, <<OtherEntity>>})

NextSetup ==
    \/ AsyncSetupEntry
    \/ \E dev_ids \in DevIdBatches : DiscoveryNew(dev_ids)

SpecSetup == InitSetup /\ [][NextSetup]_vars

---------------------------------------------------------------------------
(* Properties. *)

\* The entities managed by the host, as a set.
EntitySet == {entities[i] : i \in 1..Len(entities)}

Curtains == {e \in EntitySet : device_class(e) = DEVICE_CLASS_CURTAIN}
Garages == {e \in EntitySet : device_class(e) = DEVICE_CLASS_GARAGE}

HasDP(e, code) == code \in DOMAIN tuya_status(e)

\* C1: for every curtain entity and every status mapping,
\* current_cover_position is 100 minus the value of percent_state, and 100
\* when percent_state is absent; percent_state = 30 reads as 70.
C1_CurtainPositionInverted ==
    \A e \in Curtains :
        /\ HasDP(e, DPCODE_PERCENT_STATE)
              => current_cover_position(e) + tuya_status(e)[DPCODE_PERCENT_STATE] = 100
        /\ ~ HasDP(e, DPCODE_PERCENT_STATE) => current_cover_position(e) = 100
        /\ (HasDP(e, DPCODE_PERCENT_STATE) /\ tuya_status(e)[DPCODE_PERCENT_STATE] = 30)
              => current_cover_position(e) = 70

C1_Witness ==
    \E e \in Curtains :
        /\ HasDP(e, DPCODE_PERCENT_STATE)
        /\ tuya_status(e)[DPCODE_PERCENT_STATE] = 30
        /\ current_cover_position(e) = 70

\* C2 (as stated): for every garage-door entity, current_cover_position is
\* 0 when doorcontact_state is true, and 100 when it is false or absent.
C2_GaragePositionAsStated ==
    \A e \in Garages :
        IF HasDP(e, DPCODE_GD_CSTATE) /\ tuya_status(e)[DPCODE_GD_CSTATE]
        THEN current_cover_position(e) = 0
        ELSE current_cover_position(e) = 100

\* C2 (amended): for every garage-door entity, current_cover_position is
\* 100 when doorcontact_state is true, and 0 when it is false or absent.
C2_GaragePositionAmended ==
    \A e \in Garages :
        IF HasDP(e, DPCODE_GD_CSTATE) /\ tuya_status(e)[DPCODE_GD_CSTATE]
        THEN current_cover_position(e) = 100
        ELSE current_cover_position(e) = 0

C2_Witness ==
    \E e \in Garages :
        /\ HasDP(e, DPCODE_GD_CSTATE)
        /\ tuya_status(e)[DPCODE_GD_CSTATE]
        /\ current_cover_position(e) = 100

\* C3: for a garage-door entity whose status contains doorcontact_state,
\* is_closed is the negation of that boolean; for a curtain entity is_closed
\* is False in every state, whatever percent_state holds, position 0 included.
C3_IsClosed ==
    /\ \A e \in Garages :
          HasDP(e, DPCODE_GD_CSTATE)
              => (is_closed(e) <=> ~ tuya_status(e)[DPCODE_GD_CSTATE])
    /\ \A e \in Curtains : is_closed(e) = FALSE

C3_Witness ==
    \E e \in Curtains :
        /\ current_cover_position(e) = 0
        /\ is_closed(e) = FALSE

\* C4: in every state supported_features contains OPEN and CLOSE, contains
\* STOP exactly when the entity is not a garage door, and contains
\* SET_POSITION exactly when percent_control is a key of the status.
C4_SupportedFeatures ==
    \A e \in EntitySet :
        /\ HasFeature(supported_features(e), SUPPORT_OPEN)
        /\ HasFeature(supported_features(e), SUPPORT_CLOSE)
        /\ HasFeature(supported_features(e), SUPPORT_STOP)
              <=> device_class(e) # DEVICE_CLASS_GARAGE
        /\ HasFeature(supported_features(e), SUPPORT_SET_POSITION)
              <=> HasDP(e, DPCODE_PERCENT_CONTROL)

C4_Witness ==
    \E e \in Garages :
        /\ HasDP(e, DPCODE_PERCENT_CONTROL)
        /\ supported_features(e) = SUPPORT_OPEN + SUPPORT_CLOSE + SUPPORT_SET_POSITION

\* The calls of the handlers named in ops, by their place in the history.
CallsOf(ops) == {i \in 1..Len(calls) : calls[i].op \in ops}

\* Call number i handed the device manager exactly one command list, for
\* the device of the entity called.
SentOneList(i) ==
    /\ Len(sent) = Len(calls)
    /\ sent[i].device_id = calls[i].entity.device_id

\* C5: each call of open_cover or close_cover sends exactly one command
\* list holding exactly one command: for a curtain {control, "open"} on
\* open_cover and {control, "close"} on close_cover; for a garage door
\* {switch_1, true} on both.
C5_OpenCloseCommands ==
    \A i \in CallsOf({"open_cover", "close_cover"}) :
        /\ SentOneList(i)
        /\ Len(sent[i].commands) = 1
        /\ IF device_class(calls[i].entity) = DEVICE_CLASS_GARAGE
           THEN sent[i].commands[1] = [code |-> "switch_1", value |-> PyBool(TRUE)]
           ELSE IF calls[i].op = "open_cover"
           THEN sent[i].commands[1] = [code |-> "control", value |-> PyStr("open")]
           ELSE sent[i].commands[1] = [code |-> "control", value |-> PyStr("close")]

C5_Witness ==
    /\ Len(calls) = 2
    /\ calls[1].op = "open_cover"
    /\ calls[2].op = "close_cover"
    /\ calls[1].entity \in Garages
    /\ calls[2].entity = calls[1].entity
    /\ sent[1].commands = sent[2].commands

\* C6: set_cover_position(position=p) sends exactly one command
\* {percent_control, p} with p as requested: not inverted, not clamped, for
\* p inside or outside 0..100, for both device classes and whether or not
\* SET_POSITION is among the supported features.
C6_SetPositionRaw ==
    \A i \in CallsOf({"set_cover_position"}) :
        /\ SentOneList(i)
        /\ sent[i].commands =
              << [code |-> "percent_control",
                  value |-> PyInt(calls[i].kwargs[ATTR_POSITION])] >>

C6_Witness ==
    \E i \in CallsOf({"set_cover_position"}) :
        /\ calls[i].kwargs[ATTR_POSITION] \notin 0..100
        /\ calls[i].entity \in Garages
        /\ ~ HasFeature(supported_features(calls[i].entity), SUPPORT_SET_POSITION)
        /\ sent[i].commands[1].value = PyInt(150)

\* C7: stop_cover sends exactly the command {control, "stop"} for every
\* entity; a garage-door entity, whose supported_features never contains
\* STOP, still emits it.
C7_StopUnconditional ==
    /\ \A i \in CallsOf({"stop_cover"}) :
          /\ SentOneList(i)
          /\ sent[i].commands = << [code |-> "control", value |-> PyStr("stop")] >>
    /\ \A e \in Garages : ~ HasFeature(supported_features(e), SUPPORT_STOP)

C7_Witness ==
    \E i \in CallsOf({"stop_cover"}) :
        /\ calls[i].entity \in Garages
        /\ ~ HasFeature(supported_features(calls[i].entity), SUPPORT_STOP)
        /\ sent[i].commands[1].code = "control"

\* The number of entries of list s that are cover entities of device d.
RECURSIVE CoverCount(_, _)
CoverCount(s, d) ==
    IF s = <<>> THEN 0
    ELSE (IF Head(s).device_id = d
             /\ Head(s).type \in {DEVICE_CLASS_GARAGE, DEVICE_CLASS_CURTAIN}
          THEN 1 ELSE 0) + CoverCount(Tail(s), d)

\* async_setup_entry has completed and no discovery notification followed.
SetupCompleted == dispatcher_connected /\ n_discover = 0

\* C8: when async_setup_entry completes, exactly one cover entity has been
\* registered (appended to the shared list and passed to async_add_entities)
\* for each device of the map whose category is cl, clkg or ckmkzq, none for
\* any other device; the entity is a garage exactly when the category is
\* ckmkzq, a curtain otherwise; when no device matches, nothing is registered.
C8_SetupRegistersSupported ==
    SetupCompleted =>
        /\ \A d \in DOMAIN device_map :
              LET n == IF device_map[d].category \in {"cl", "clkg", "ckmkzq"}
                       THEN 1 ELSE 0
              IN  /\ CoverCount(entities, d) = n
                  /\ CoverCount(ha_devices, d) = n
        /\ ha_devices \in {entities, <<OtherEntity>> \o entities}
        /\ \A e \in EntitySet :
              device_class(e) = (IF device_map[e.device_id].category = "ckmkzq"
                                 THEN "garage" ELSE "curtain")
        /\ (\A d \in DOMAIN device_map :
                device_map[d].category \notin {"cl", "clkg", "ckmkzq"})
              => (added = <<>> /\ ha_devices \in {<<>>, <<OtherEntity>>})

C8_Witness ==
    /\ SetupCompleted
    /\ Cardinality(Garages) = 1
    /\ Curtains = {}
    /\ \E d \in DOMAIN device_map : device_map[d].category \notin TUYA_SUPPORT_TYPE
    /\ Len(added) = 1
    /\ ha_devices = <<OtherEntity>> \o added[1]

\* C9 (as stated): for a garage-door entity whose status has no
\* doorcontact_state entry, is_closed reads without error as False (open).
C9_AbsentSensorAsStated ==
    \A e \in Garages : ~ HasDP(e, DPCODE_GD_CSTATE) => is_closed(e) = FALSE

\* C9 (amended): for a garage-door entity whose status has no
\* doorcontact_state entry, is_closed reads without error as True (closed).
C9_AbsentSensorAmended ==
    \A e \in Garages : ~ HasDP(e, DPCODE_GD_CSTATE) => is_closed(e) = TRUE

C9_Witness ==
    \E e \in Garages :
        /\ ~ HasDP(e, DPCODE_GD_CSTATE)
        /\ HasDP(e, DPCODE_PERCENT_STATE)
        /\ is_closed(e)

\* C10: for a garage-door entity, in every state reachable by status updates
\* and commands, current_cover_position is 0 exactly when is_closed is True
\* and 100 exactly when is_closed is False, and is never another value.
C10_GarageClosedAgreesWithPosition ==
    \A e \in Garages :
        /\ current_cover_position(e) \in {0, 100}
        /\ current_cover_position(e) = 0 <=> is_closed(e) = TRUE
        /\ current_cover_position(e) = 100 <=> is_closed(e) = FALSE

C10_Witness ==
    \E e \in Garages :
        /\ Len(calls) > 0
        /\ HasDP(e, DPCODE_GD_CSTATE)
        /\ is_closed(e)
        /\ current_cover_position(e) = 0

===========================================================================
